---- MODULE Spec2Model ----
(***************************************************************************)
(* Meta-optimisation loop of GBML (src/metalearners/gradientlearner.py):   *)
(* the hyperparameter c, the inner solver's copy of it, the meta-gradient  *)
(* accumulator, the optimizer step and its projection.                     *)
(*                                                                         *)
(* Tensors are functions from index sets to exact rationals <<num, den>>.  *)
(* The optimizer is plain SGD (hparams.opt.optimizer = 'sgd').             *)
(***************************************************************************)
EXTENDS Integers, Sequences, FiniteSets, TLC

\* ---------------------------------------------------------------- bounds
\* hparams.data.image_size of the modelled runs
ImageSize == 4
\* largest hparams.opt.num_iters of the modelled runs
MaxIters == 2

\* hparams.problem.num_acs_lines of the modelled runs
NumAcsLines == 2

\* most scans of a modelled dataset, and most slices of a scan
MaxScans == 3
MaxSlices == 2

\* ------------------------------------------------------- exact rationals
Abs(n) == IF n < 0 THEN -n ELSE n

RECURSIVE GCD(_, _)
GCD(a, b) == IF b = 0 THEN a ELSE GCD(b, a % b)

Rat(n, d) ==
  LET s == IF d < 0 THEN -1 ELSE 1
      g == GCD(Abs(n), Abs(d))
  IN  <<(s * n) \div g, (s * d) \div g>>

RZero == <<0, 1>>
ROne == <<1, 1>>
RInt(n) == <<n, 1>>
RAdd(a, b) == Rat(a[1] * b[2] + b[1] * a[2], a[2] * b[2])
RNeg(a) == <<-a[1], a[2]>>
RSub(a, b) == RAdd(a, RNeg(b))
RMul(a, b) == Rat(a[1] * b[1], a[2] * b[2])
RDivInt(a, n) == Rat(a[1], a[2] * n)
RLt(a, b) == a[1] * b[2] < b[1] * a[2]
RLe(a, b) == a[1] * b[2] <= b[1] * a[2]
RAbs(a) == <<Abs(a[1]), a[2]>>
RSign(a) == IF a[1] > 0 THEN ROne ELSE IF a[1] < 0 THEN RNeg(ROne) ELSE RZero
RMin(a, b) == IF RLe(a, b) THEN a ELSE b
RMax(a, b) == IF RLe(a, b) THEN b ELSE a
\* int(x) of a non-negative rational
RFloor(a) == a[1] \div a[2]

\* ---------------------------------------------------------------- state
VARIABLES
  cfg,        \* hparams: the run's configuration, fixed at construction
  c,          \* self.c (deterministic) or self.c.weights (probabilistic)
  cur_mask,   \* self.cur_mask_sample (probabilistic variant)
  solver_c,   \* the parameter the inner solver holds (constructor / set_c)
  ctor_c,     \* history: the parameter the solver was constructed with
  opt,        \* self.opt and self.scheduler: lr, whether its parameter is self.c
  c_list,     \* self.c_list
  pc,         \* position in run_meta_opt
  iter,       \* loop variable of run_meta_opt
  global_epoch,
  bidx,       \* batches consumed of the loader being iterated
  acc,        \* locals of _run_outer_step: meta_grad, n_samples, num_batches
  saved,      \* the snapshot last written by _checkpoint
  last,       \* history: what the last training batch read and produced
  win,        \* history: the batches of the current accumulation window
  step,       \* history: what the last _opt_step was given and produced
  attrs,      \* the attributes of the learner object that have been assigned
  resumed,    \* history: the learner was constructed with args.resume
  epoch_steps, \* history: calls of _opt_step since global_epoch last changed
  A,          \* self.A: the coil maps its forward operator was built from
  s_maps,     \* recon_alg.H_funcs.s_maps: the coil maps the solver holds
  coil,       \* history: the coil maps each stage of the last batch used
  log,        \* history: what run_meta_opt has done so far, in order
  fop,        \* a FourierOperator (src/problems/fourier.py): its stored fields
  fcall,      \* history: the last call made on the operator and its result
  dataset,    \* a BrainMultiCoil (src/datasets/mri_dataloaders.py): its fields
  item        \* history: the last call made on the dataset and its result

vars == <<cfg, c, cur_mask, solver_c, ctor_c, opt, c_list, pc, iter, global_epoch,
          bidx, acc, saved, last, win, step, attrs, resumed, epoch_steps, A, s_maps,
          coil, log, fop, fcall, dataset, item>>

\* -------------------------------------------------------- configuration
\* the layouts _init_c and _shape_c know, and one they do not
SupportedPatterns == {"horizontal", "vertical", "random"}
Patterns == SupportedPatterns \cup {"radial"}
\* the three families _opt_step knows, and one it does not
KnownRegTypes == {"soft", "hard", "l1"}
RegTypes == KnownRegTypes \cup {"elastic"}
Scales == {<<1, 4>>, <<1, 2>>}
\* hparams.opt.batches_per_iter, len(train_loader), hparams.data.train_batch_size
BatchesPerIter == {-1, 0, 1, 2}
TrainShapes == {<<1, 1>>, <<2, 1>>, <<1, 2>>, <<2, 2>>, <<3, 1>>}
\* hparams.outer.ROI: absent, the whole image, a proper window of rows
ROIs == {<<>>, <<<<0, ImageSize>>, <<0, ImageSize>>>>,
         <<<<1, ImageSize - 1>>, <<0, ImageSize>>>>}

AllConfigs ==
  [prob_c : BOOLEAN,
   measurement_weighting : BOOLEAN,
   measurement_selection : BOOLEAN,
   sample_pattern : Patterns,
   reg_hyperparam : BOOLEAN,
   reg_hyperparam_type : RegTypes,
   reg_hyperparam_scale : Scales,
   keep_center : BOOLEAN,
   batches_per_iter : BatchesPerIter,
   train_shape : TrainShapes,
   num_iters : {1, MaxIters},
   val_iters : {2},
   checkpoint_iters : {2},
   val_len : {1},
   test_len : {1},
   decay : BOOLEAN,
   ROI : ROIs]

\* The configurations of the modelled runs.  Fields the chosen path never
\* reads are pinned; the accumulation settings vary in full for the
\* horizontal pattern and over fewer values for the other layouts.
Configs ==
  { k \in AllConfigs :
      /\ k.measurement_weighting = k.measurement_selection =>
           /\ ~k.prob_c /\ k.sample_pattern = "horizontal" /\ ~k.reg_hyperparam
           /\ k.reg_hyperparam_type = "soft" /\ ~k.keep_center /\ ~k.decay
           /\ k.batches_per_iter = -1 /\ k.ROI = <<>>
           /\ k.train_shape = (IF k.measurement_weighting THEN <<2, 1>> ELSE <<1, 1>>)
      /\ k.prob_c =>
           /\ k.measurement_selection /\ k.sample_pattern = "horizontal"
           /\ ~k.reg_hyperparam /\ k.reg_hyperparam_type = "soft"
           /\ ~k.keep_center /\ k.train_shape = <<1, 1>>
      /\ k.measurement_weighting =>
           /\ k.sample_pattern = "horizontal" /\ ~k.keep_center
           /\ k.batches_per_iter = -1 /\ k.train_shape # <<1, 1>>
      /\ k.measurement_selection => ~k.decay
      /\ k.sample_pattern = "vertical" =>
           k.batches_per_iter = -1 /\ k.train_shape = <<1, 1>>
      /\ k.sample_pattern = "random" =>
           k.batches_per_iter = 1 /\ k.train_shape = <<2, 1>>
      /\ ~k.reg_hyperparam => k.reg_hyperparam_type \in {"soft", "l1"}
      /\ k.reg_hyperparam_scale = <<1, 4>> =>
           k.reg_hyperparam /\ k.reg_hyperparam_type \in {"soft", "hard"}
      /\ k.reg_hyperparam_scale = <<1, 2>> =>
           ~(k.reg_hyperparam /\ k.reg_hyperparam_type = "soft")
      /\ k.batches_per_iter = 0 => k.train_shape = <<1, 1>>
      /\ k.batches_per_iter = 2 => k.train_shape \in {<<1, 1>>, <<3, 1>>}
      /\ k.train_shape = <<3, 1>> =>
           /\ k.batches_per_iter = 2 /\ ~k.prob_c /\ k.measurement_selection
           /\ k.sample_pattern = "horizontal" /\ ~k.keep_center
           /\ ~k.reg_hyperparam /\ k.reg_hyperparam_type = "soft" /\ k.ROI = <<>>
      /\ k.ROI # <<>> =>
           /\ ~k.prob_c /\ k.measurement_selection /\ k.sample_pattern = "horizontal"
           /\ ~k.reg_hyperparam /\ k.reg_hyperparam_type = "soft" /\ ~k.keep_center
           /\ k.batches_per_iter = -1 /\ k.train_shape = <<1, 1>>
      /\ k.sample_pattern = "radial" =>
           /\ ~k.prob_c /\ ~k.reg_hyperparam /\ k.reg_hyperparam_type = "soft"
           /\ k.batches_per_iter = -1 /\ k.train_shape = <<1, 1>>
      /\ k.reg_hyperparam_type = "elastic" =>
           /\ k.reg_hyperparam /\ k.measurement_selection
           /\ k.sample_pattern = "horizontal" /\ ~k.keep_center
           /\ k.batches_per_iter = -1 /\ k.train_shape = <<2, 1>>
      /\ k.num_iters = 1 <=> k.train_shape = <<2, 2>>
      /\ k.train_shape = <<2, 2>> =>
           /\ k.measurement_selection /\ k.sample_pattern = "horizontal"
           /\ ~k.keep_center /\ k.batches_per_iter \in {-1, 1} }

TrainLen == cfg.train_shape[1]
TrainBatchSize == cfg.train_shape[2]

\* ------------------------------------------------------------- geometry
Lines == 0 .. (ImageSize - 1)
Pos == Lines \X Lines

\* number of entries of c (_init_c: m)
NumEl ==
  IF cfg.prob_c THEN ImageSize
  ELSE IF cfg.measurement_weighting THEN 1
  ELSE IF cfg.sample_pattern = "random" THEN ImageSize * ImageSize
  ELSE ImageSize

Idx == 0 .. (NumEl - 1)

\* the entry of c that weights measurement position p = <<row, col>>
IdxOf(p) ==
  IF cfg.prob_c THEN p[1]
  ELSE IF cfg.measurement_weighting THEN 0
  ELSE IF cfg.sample_pattern = "random" THEN p[1] * ImageSize + p[2]
  ELSE IF cfg.sample_pattern = "horizontal" THEN p[1]
  ELSE p[2]

\* _shape_c: c broadcast to the [H, W] measurement grid
ShapeC(cc) == [p \in Pos |-> cc[IdxOf(p)]]

\* np.arange((image_size - num_center_lines) // 2, (image_size + num_center_lines) // 2)
CenterLines ==
  { i \in Lines : /\ i >= (ImageSize - NumAcsLines) \div 2
                  /\ i < (ImageSize + NumAcsLines) \div 2 }

\* the entries of c that center-keep forces to 1
CenterIdx ==
  IF cfg.sample_pattern = "random"
  THEN { i * ImageSize + j : i \in CenterLines, j \in CenterLines }
  ELSE CenterLines

\* --------------------------------------------------------------- vectors
VZero == [i \in Idx |-> RZero]
VAdd(u, v) == [i \in Idx |-> RAdd(u[i], v[i])]
VSub(u, v) == [i \in Idx |-> RSub(u[i], v[i])]
VScale(q, v) == [i \in Idx |-> RMul(q, v[i])]
VDivInt(v, n) == [i \in Idx |-> RDivInt(v[i], n)]

\* ------------------------------------------------------------------ data
\* What one sample contributes to a batch: r = A(x_hat) - y on the measurement
\* grid, and ag = A(x_hat - x), the meta-loss gradient g_x = x_hat - x seen
\* through the forward operator, so that <A^H(c * r), g_x> = <c * r, ag>.
Diag(w) == [p \in Pos |-> IF p[1] = p[2] THEN w[p[1]] ELSE 0]
Const(v) == [p \in Pos |-> v]

\* x_hat = x (a perfect reconstruction); a reconstruction that pulls every
\* line down, the calibration lines most; one that pushes every line up
Sample(name) ==
  IF name = "exact" THEN [r |-> Const(0), ag |-> Const(0)]
  ELSE IF name = "under"
  THEN [r |-> Const(1),
        ag |-> Diag([i \in Lines |-> IF i \in CenterLines THEN -(ImageSize + 1)
                                                       ELSE -(i + 1)])]
  ELSE [r |-> Const(-1), ag |-> Diag([i \in Lines |-> -(i + 1)])]

Outcomes == {"exact", "under", "over"}

\* the training batches the loader and the solver can produce
Batches == [1 .. TrainBatchSize -> Outcomes]

RECURSIVE SumFn(_, _)
SumFn(f, S) ==
  IF S = {} THEN 0
  ELSE LET x == CHOOSE y \in S : TRUE IN f[x] + SumFn(f, S \ {x})

\* <c_shaped * r, ag> differentiated with respect to entry j of c, for one sample
SampleHvp(name, j) ==
  LET smp == Sample(name)
  IN  SumFn([p \in Pos |-> smp.r[p] * smp.ag[p]], {p \in Pos : IdxOf(p) = j})

\* d cur_mask_sample / d weights of the relaxed sample: fixed rows carry no gradient
MaskJac(j) == IF cfg.prob_c /\ j \in CenterLines THEN 0 ELSE 1

\* hvp(c, cond_log_grad, grad_x_meta_loss): d/dc <cond_log_grad, g_x>, summed
\* over the samples of the batch
Hvp(data) ==
  [j \in Idx |->
     RInt(MaskJac(j) * SumFn([n \in DOMAIN data |-> SampleHvp(data[n], j)], DOMAIN data))]

\* grad_c_meta_loss of _mle_grad
RegGrad(cc) ==
  IF cfg.prob_c THEN VZero
  ELSE [i \in Idx |->
          RMul(IF cfg.reg_hyperparam_type = "l1" THEN RSign(cc[i]) ELSE RZero,
               cfg.reg_hyperparam_scale)]

PlusHvp(h, reg) == VAdd(VAdd(VZero, h), reg)

\* out_grad = 0.0; out_grad -= hvp(...); out_grad += grad_c_meta_loss
OutGrad(h, reg) == VAdd(VSub(VZero, h), reg)

\* the hyperparameter that weights the residual in _mle_grad
UsedC == IF cfg.prob_c THEN cur_mask ELSE ShapeC(c)

\* the length of the slice a:b of an axis of n entries
SliceLen(a, b, n) ==
  LET hi == IF b < n THEN b ELSE n IN IF hi > a THEN hi - a ELSE 0

ImageShape == <<ImageSize, ImageSize>>

\* lines 638-643: the spatial shape of grad_x_meta_loss, x_hat - x cut to the
\* window [..., H0:H1, W0:W1] when an ROI is configured
GradShape ==
  IF cfg.ROI = <<>> THEN ImageShape
  ELSE <<SliceLen(cfg.ROI[1][1], cfg.ROI[1][2], ImageSize),
         SliceLen(cfg.ROI[2][1], cfg.ROI[2][2], ImageSize)>>

\* hvp(c, u, v) differentiates <u, v>: u and v must have the same shape
HvpRaises(shape) == shape # ImageShape

MleGradWrites(cc, data) ==
  LET h == Hvp(data)
      reg == RegGrad(cc)
      out == OutGrad(h, reg)
  IN  [ok |-> ~HvpRaises(GradShape), g_shape |-> GradShape,
       hvp |-> h, reg |-> reg, out |-> out, c |-> VSub(cc, out)]

\* _mle_grad(x_hat, x, y) for one batch; c is self.c as the call leaves it
\* (requires_grad is switched on and off, the values are only read)
MleGrad(cc, data) ==
  LET h == Hvp(data)
      reg == RegGrad(cc)
  IN  [ok |-> ~HvpRaises(GradShape), g_shape |-> GradShape,
       hvp |-> h, reg |-> reg, out |-> OutGrad(h, reg), c |-> cc]

\* ------------------------------------------------------------- _opt_step
\* self.c.grad.copy_(meta_grad); self.opt.step(): SGD moves the tensor the
\* optimizer holds; the gradient set on any other tensor is not used
SgdUpdate(cc, o, grad) ==
  IF o.param_is_c THEN VSub(cc, VScale(o.lr, grad)) ELSE cc

SoftNoMid(cc, s) ==
  LET over == {i \in Idx : RLt(s, cc[i])}
      under == {i \in Idx : RLt(cc[i], RNeg(s))}
      c1 == [i \in Idx |-> IF i \in over THEN RSub(cc[i], s) ELSE cc[i]]
  IN  [i \in Idx |-> IF i \in under THEN RAdd(c1[i], s) ELSE c1[i]]

\* reg_hyperparam_type == "soft": the three masks are taken first, then applied
SoftThreshold(cc, s) ==
  LET over == {i \in Idx : RLt(s, cc[i])}
      mid == {i \in Idx : RLe(RNeg(s), cc[i]) /\ RLe(cc[i], s)}
      under == {i \in Idx : RLt(cc[i], RNeg(s))}
      c1 == [i \in Idx |-> IF i \in over THEN RSub(cc[i], s) ELSE cc[i]]
      c2 == [i \in Idx |-> IF i \in mid THEN RMul(c1[i], RZero) ELSE c1[i]]
  IN  [i \in Idx |-> IF i \in under THEN RAdd(c2[i], s) ELSE c2[i]]

\* k = int(self.c.numel() * (1 - scale))
HardK(s) == RFloor(RMul(RInt(NumEl), RSub(ROne, s)))

\* torch.kthvalue(v, k)[0]: the k-th smallest entry of v, 1 <= k <= numel
KthValue(v, k) ==
  CHOOSE x \in {v[i] : i \in Idx} :
    /\ Cardinality({i \in Idx : RLt(v[i], x)}) < k
    /\ Cardinality({i \in Idx : RLe(v[i], x)}) >= k

HardThresholdTies(cc, s) ==
  LET t == KthValue([i \in Idx |-> RAbs(cc[i])], HardK(s))
  IN  [i \in Idx |-> IF RLe(RAbs(cc[i]), t) THEN RMul(cc[i], RZero) ELSE cc[i]]

\* reg_hyperparam_type == "hard": entries strictly under the k-th smallest
\* magnitude are zeroed
HardThreshold(cc, s) ==
  LET t == KthValue([i \in Idx |-> RAbs(cc[i])], HardK(s))
  IN  [i \in Idx |-> IF RLt(RAbs(cc[i]), t) THEN RMul(cc[i], RZero) ELSE cc[i]]

ClampLow(cc) == [i \in Idx |-> RMax(cc[i], RZero)]

ClampHigh(cc) == [i \in Idx |-> RMin(cc[i], ROne)]

\* self.c.clamp_(min=0., max=1.)
Clamp(cc) == [i \in Idx |-> RMin(RMax(cc[i], RZero), ROne)]

KeepCenterNonzero(cc) ==
  [i \in Idx |-> IF i \in CenterIdx /\ cc[i] # RZero THEN ROne ELSE cc[i]]

\* self.c[center_line_idx] = 1.
KeepCenter(cc) == [i \in Idx |-> IF i \in CenterIdx THEN ROne ELSE cc[i]]

\* whether the regularizer branch raises: kthvalue with k out of range, or a
\* family that is none of soft, hard, l1
RegRaises ==
  /\ cfg.reg_hyperparam
  /\ \/ /\ cfg.reg_hyperparam_type = "hard"
        /\ HardK(cfg.reg_hyperparam_scale) \notin 1 .. NumEl
     \/ cfg.reg_hyperparam_type \notin KnownRegTypes

ThresholdAlwaysSoft(cc) ==
  IF cfg.reg_hyperparam_type \in {"soft", "hard"}
  THEN SoftThreshold(cc, cfg.reg_hyperparam_scale)
  ELSE cc

\* the thresholding of the regularizer family, before the clamp
Threshold(cc) ==
  IF cfg.reg_hyperparam_type = "soft" THEN SoftThreshold(cc, cfg.reg_hyperparam_scale)
  ELSE IF cfg.reg_hyperparam_type = "hard" THEN HardThreshold(cc, cfg.reg_hyperparam_scale)
  ELSE cc

\* lines 578-601: thresholding, then the clamp
Project(cc) == IF cfg.reg_hyperparam THEN Clamp(Threshold(cc)) ELSE cc

\* lines 603-617: center-keep
Center(cc) ==
  IF cfg.measurement_selection /\ cfg.keep_center THEN KeepCenter(cc) ELSE cc

\* self.c = self.c.view(...); ...; self.c = self.c.flatten(): self.c becomes a
\* new tensor that shares the storage of the optimizer's parameter
Rebinds ==
  /\ cfg.measurement_selection /\ cfg.keep_center
  /\ cfg.sample_pattern = "random"

\* hparams.opt.lr_decay of the modelled runs
LrDecay == <<1, 2>>

\* _opt_step(meta_grad): the values c passes through and the optimizer after it
OptStep(cc, o, grad) ==
  LET upd == SgdUpdate(cc, o, grad)
  IN  IF cfg.prob_c
      THEN [ok |-> TRUE, upd |-> upd, thr |-> upd, proj |-> upd, new |-> upd,
            opt |-> [o EXCEPT !.lr = IF cfg.decay THEN RMul(@, LrDecay) ELSE @]]
      ELSE IF RegRaises
      THEN [ok |-> FALSE, upd |-> upd, thr |-> upd, proj |-> upd, new |-> upd,
            opt |-> o]
      ELSE [ok |-> TRUE, upd |-> upd,
            thr |-> IF cfg.reg_hyperparam THEN Threshold(upd) ELSE upd,
            proj |-> Project(upd),
            new |-> Center(Project(upd)),
            opt |-> [lr |-> IF cfg.decay THEN RMul(o.lr, LrDecay) ELSE o.lr,
                     param_is_c |-> o.param_is_c /\ ~Rebinds]]

\* ------------------------------------------------------ probabilistic mask
\* c.sample_mask(tau): a binary mask per line, the calibration lines forced to 1
SampleMasks ==
  { [p \in Pos |-> IF p[1] \in rows \cup CenterLines THEN ROne ELSE RZero] :
      rows \in SUBSET (Lines \ CenterLines) }

\* the masks a resampling can produce (the deterministic variant has none)
MaskChoices == IF cfg.prob_c THEN SampleMasks ELSE {cur_mask}

\* ------------------------------------------------------------------ Init
\* hparams.opt.lr of the modelled runs
Lr0 == <<1, 4>>

\* _init_c with hyperparam_init = 1 and R = 1; the logits of a new mask
InitC == IF cfg.prob_c THEN VZero ELSE [i \in Idx |-> ROne]

Snapshot ==
  [written |-> TRUE, c |-> c, c_list |-> c_list, global_epoch |-> global_epoch,
   opt_state |-> opt.lr]

\* line 53: self.A = None, no coil maps yet
NoMaps == <<"None", 0>>

\* the optimizer _init_meta_optimizer builds around self.c
NewOpt == [lr |-> Lr0, param_is_c |-> TRUE]

\* no learner exists yet: the variables of the object hold the values its
\* construction will give them, and attrs records that none is assigned
Unbuilt(k) ==
  /\ cfg = k
  /\ c = InitC
  /\ cur_mask = ShapeC(InitC)
  /\ solver_c = ShapeC(InitC)
  /\ ctor_c = solver_c
  /\ opt = NewOpt
  /\ c_list = <<InitC>>
  /\ pc = "new"
  /\ iter = 0
  /\ global_epoch = 0
  /\ bidx = 0
  /\ acc = [meta_grad |-> VZero, n_samples |-> 0, num_batches |-> 0]
  /\ saved = [written |-> FALSE, c |-> InitC, c_list |-> <<InitC>>,
              global_epoch |-> 0, opt_state |-> Lr0]
  /\ last = [n |-> 0, recon_c |-> solver_c, used_c |-> solver_c, c |-> InitC,
             g_shape |-> ImageShape, hvp |-> VZero, reg |-> VZero, out |-> VZero]
  /\ win = <<>>
  /\ step = [n |-> 0, grad |-> VZero, n_samples |-> 0, before |-> InitC,
             upd |-> InitC, thr |-> InitC, proj |-> InitC, after |-> InitC, win |-> <<>>,
             lr |-> Lr0, held |-> TRUE]
  /\ attrs = {}
  /\ resumed = FALSE
  /\ epoch_steps = 0
  /\ A = NoMaps
  /\ s_maps = NoMaps
  /\ log = <<>>
  /\ coil = [n |-> 0, loader |-> "None", batch |-> NoMaps, prev |-> NoMaps,
             recon |-> NoMaps, post |-> NoMaps, metrics |-> NoMaps, grad |-> NoMaps]

\* the runs of the learner: no forward operator of src/problems/fourier.py
\* is involved (the learner builds MulticoilForwardMRINoMask per batch)
Init ==
  /\ \E k \in Configs : Unbuilt(k)
  /\ fop = <<>>
  /\ fcall = <<>>
  /\ dataset = <<>>
  /\ item = <<>>

\* --------------------------------------------------------------- actions
\* recon_alg.set_c(c_shaped): the solver keeps a copy of the value it is given
SetC(shaped) == shaped

StaleSolver(held, shaped) == held

\* lines 273-275, 307-308, 334-335: the learner pushes the shaped c (or the
\* fresh mask sample) to the solver, which held `held` until then
Resync(held, shaped) == SetC(shaped)

\* item['s_maps'] of batch i of a loader: every batch has its own coil maps
CoilMaps(loader, i) == <<loader, i>>

StaleCoilMaps(held, maps) == held

\* _shared_step, lines 354-355: the solver's coil maps and the coil maps of
\* the forward operator after the two assignments
SetCoilMaps(held, maps) == maps

\* _shared_step (lines 350-368) and its callers on batch i of a loader: the
\* coil maps the learner holds afterwards and the ones each stage used:
\* reconstruct (line 359), the forward-adjoint of lines 367-368,
\* _add_batch_metrics (line 394) and, in training, _mle_grad (lines 649-665)
SharedStep(loader, i) ==
  LET maps == CoilMaps(loader, i)
      sm == SetCoilMaps(s_maps, maps)
      op == SetCoilMaps(A, maps)
  IN  [s_maps |-> sm, A |-> op,
       coil |-> [n |-> coil.n + 1, loader |-> loader, batch |-> maps, prev |-> s_maps,
                 recon |-> sm, post |-> op, metrics |-> op,
                 grad |-> IF loader = "train" THEN op ELSE NoMaps]]

\* lines 42 and 47: what __init__ assigns before _init_c
EarlyAttrs == {"prob_c", "ROI"}

\* what a completed __init__ has assigned (lines 42-85)
BuiltAttrs ==
  EarlyAttrs \cup {"c", "opt", "scheduler", "train_loader", "A", "global_epoch",
                   "c_list", "recon_alg", "metrics", "log_dir", "image_root",
                   "tb_root", "tb_logger"}
             \cup (IF cfg.prob_c THEN {"cur_mask_sample"} ELSE {})

InitCAccepts == FALSE

InitCAssertsNever == FALSE

\* _init_c, lines 734-736: the assertion of the deterministic variant
InitCAsserts ==
  /\ ~cfg.prob_c
  /\ (IF cfg.measurement_weighting THEN 1 ELSE 0)
       + (IF cfg.measurement_selection THEN 1 ELSE 0) # 1

\* _init_c, lines 741-750: raise NotImplementedError for an unknown layout
InitCRaises ==
  /\ ~cfg.prob_c
  /\ ~cfg.measurement_weighting /\ cfg.measurement_selection
  /\ cfg.sample_pattern \notin SupportedPatterns

\* _shape_c, lines 701-715: raise NotImplementedError for an unknown layout
ShapeCRaises ==
  /\ ~cfg.measurement_weighting /\ cfg.measurement_selection
  /\ cfg.sample_pattern \notin SupportedPatterns

\* __init__ without args.resume, lines 41-85
Construct ==
  /\ pc = "new"
  /\ IF InitCAsserts \/ InitCRaises
     THEN /\ attrs' = EarlyAttrs
          /\ pc' = "error"
          /\ UNCHANGED <<c, cur_mask, solver_c, ctor_c, opt, c_list, global_epoch>>
     ELSE /\ c' = InitC
          /\ opt' = NewOpt
          /\ global_epoch' = 0
          /\ c_list' = <<InitC>>
          /\ cur_mask' \in (IF cfg.prob_c THEN SampleMasks ELSE {ShapeC(InitC)})
          /\ solver_c' = (IF cfg.prob_c THEN cur_mask' ELSE ShapeC(InitC))
          /\ ctor_c' = solver_c'
          /\ attrs' = BuiltAttrs
          /\ pc' = "ckpt"
  /\ UNCHANGED <<dataset, item, fop, fcall, log, A, s_maps, coil, cfg, iter, bidx, acc, saved, last, win, step, resumed,
                 epoch_steps>>

\* run_meta_opt, lines 219-221
Checkpoint ==
  /\ pc = "ckpt"
  /\ saved' = IF iter % cfg.checkpoint_iters = 0 THEN Snapshot ELSE saved
  /\ log' = IF iter % cfg.checkpoint_iters = 0 THEN Append(log, "checkpoint") ELSE log
  /\ pc' = "val"
  /\ bidx' = 0
  /\ UNCHANGED <<dataset, item, fop, fcall, A, s_maps, coil, attrs, resumed, epoch_steps, cfg, ctor_c, c, cur_mask, solver_c, opt, c_list, iter, global_epoch,
                 acc, last, win, step>>

ValDueAlways == bidx < cfg.val_len

ValDue == iter % cfg.val_iters = 0 /\ bidx < cfg.val_len

\* one batch of _run_validation: _shared_step, then the resample and set_c
ValBatch ==
  /\ pc = "val"
  /\ ValDue
  /\ \E m \in MaskChoices :
       /\ cur_mask' = m
       /\ solver_c' = Resync(solver_c, IF cfg.prob_c THEN m ELSE ShapeC(c))
  /\ \E sh \in {SharedStep("val", bidx)} :
       A' = sh.A /\ s_maps' = sh.s_maps /\ coil' = sh.coil
  /\ log' = IF bidx = 0 THEN Append(log, "validation") ELSE log
  /\ bidx' = bidx + 1
  /\ UNCHANGED <<dataset, item, fop, fcall, attrs, resumed, epoch_steps, cfg, ctor_c, c, opt, c_list, pc, iter, global_epoch, acc, saved,
                 last, win, step>>

\* lines 249-253 and 279-281: the window length
WindowLenAll == TrainLen

WindowLenOne == IF cfg.batches_per_iter = 0 THEN 0 ELSE 1

WindowLenNoZero ==
  IF cfg.batches_per_iter <= 0 \/ cfg.batches_per_iter > TrainLen
  THEN TrainLen ELSE cfg.batches_per_iter

WindowLen ==
  IF cfg.batches_per_iter < 0 \/ cfg.batches_per_iter > TrainLen
  THEN TrainLen ELSE cfg.batches_per_iter

CarryWindow(mg, ns) == [meta_grad |-> mg, n_samples |-> ns, num_batches |-> WindowLen]

\* lines 247-251 and 277-281: meta_grad = 0.0, n_samples = 0 and num_batches
\* re-armed, whatever the locals held
NewWindow(mg, ns) == [meta_grad |-> VZero, n_samples |-> 0, num_batches |-> WindowLen]

\* _run_outer_step, lines 247-253
BeginOuterStep ==
  /\ pc = "val"
  /\ ~ValDue
  /\ acc' = NewWindow(acc.meta_grad, acc.n_samples)
  /\ win' = <<>>
  /\ pc' = IF WindowLen = 0 THEN "outer_ret" ELSE "train"
  /\ log' = Append(log, "train")
  /\ bidx' = 0
  /\ UNCHANGED <<dataset, item, fop, fcall, A, s_maps, coil, attrs, resumed, epoch_steps, cfg, ctor_c, c, cur_mask, solver_c, opt, c_list, iter, global_epoch,
                 saved, last, step>>

BatchesSeen(n, data) == n + 1

\* n_samples += x.shape[0]
SamplesSeen(n, data) == n + Len(data)

\* meta_grad /= n_samples
Normalize(mg, n) == VDivInt(mg, n)

\* one batch of _run_outer_step, lines 255-281
TrainBatch ==
  /\ pc = "train"
  /\ bidx < TrainLen
  /\ \E data \in Batches, m \in MaskChoices :
     \E g \in {MleGrad(c, data)} :
     \E ns \in {SamplesSeen(acc.n_samples, data)} :
     \E r \in {OptStep(g.c, opt, Normalize(VAdd(acc.meta_grad, g.out), ns))} :
       LET mg == VAdd(acc.meta_grad, g.out)
           nb == acc.num_batches - 1
           w == Append(win, [grad |-> g.out, size |-> Len(data), data |-> data,
                             i |-> bidx, epoch |-> global_epoch])
           handed == Normalize(mg, ns)
       IN  /\ last' = IF g.ok
                       THEN [n |-> last.n + 1, recon_c |-> solver_c, used_c |-> UsedC,
                             c |-> c, g_shape |-> g.g_shape,
                             hvp |-> g.hvp, reg |-> g.reg, out |-> g.out]
                       ELSE [last EXCEPT !.n = @ + 1, !.recon_c = solver_c,
                                         !.used_c = UsedC, !.g_shape = g.g_shape]
           /\ IF ~g.ok
              THEN /\ m = cur_mask
                   /\ c' = g.c
                   /\ pc' = "error"
                   /\ UNCHANGED <<cur_mask, solver_c, opt, c_list, acc, win, bidx,
                                  step, epoch_steps>>
              ELSE IF nb # 0
              THEN /\ m = cur_mask
                   /\ c' = g.c
                   /\ acc' = [meta_grad |-> mg, n_samples |-> ns, num_batches |-> nb]
                   /\ win' = w
                   /\ bidx' = bidx + 1
                   /\ UNCHANGED <<cur_mask, solver_c, opt, c_list, pc, step, epoch_steps>>
              ELSE /\ step' = [n |-> step.n + 1, grad |-> handed, n_samples |-> ns,
                               before |-> g.c, upd |-> r.upd, thr |-> r.thr,
                               proj |-> r.proj,
                               after |-> r.new, win |-> w,
                               lr |-> opt.lr, held |-> opt.param_is_c]
                   /\ opt' = r.opt
                   /\ epoch_steps' = epoch_steps + 1
                   /\ IF r.ok
                      THEN /\ c' = r.new
                           /\ c_list' = Append(c_list, r.new)
                           /\ cur_mask' = m
                           /\ solver_c' = Resync(solver_c,
                                               IF cfg.prob_c THEN m ELSE ShapeC(r.new))
                           /\ acc' = NewWindow(mg, ns)
                           /\ win' = <<>>
                           /\ bidx' = bidx + 1
                           /\ pc' = pc
                      ELSE /\ m = cur_mask
                           /\ c' = r.upd
                           /\ pc' = "error"
                           /\ UNCHANGED <<cur_mask, solver_c, c_list, acc, win, bidx>>
  /\ \E sh \in {SharedStep("train", bidx)} :
       A' = sh.A /\ s_maps' = sh.s_maps /\ coil' = sh.coil
  /\ UNCHANGED <<dataset, item, fop, fcall, log, attrs, resumed, cfg, ctor_c, iter, global_epoch, saved>>

\* the return of _run_outer_step and run_meta_opt, line 232
EndOuterStep ==
  /\ \/ pc = "outer_ret"
     \/ pc = "train" /\ bidx = TrainLen
  /\ global_epoch' = global_epoch + 1
  /\ iter' = iter + 1
  /\ pc' = IF iter + 1 < cfg.num_iters THEN "ckpt" ELSE "test"
  /\ log' = Append(log, "epoch")
  /\ bidx' = 0
  /\ epoch_steps' = 0
  /\ UNCHANGED <<dataset, item, fop, fcall, A, s_maps, coil, attrs, resumed, cfg, ctor_c, c, cur_mask, solver_c, opt, c_list, acc, saved, last,
                 win, step>>

\* one batch of _run_test
TestBatch ==
  /\ pc = "test"
  /\ bidx < cfg.test_len
  /\ \E m \in MaskChoices :
       /\ cur_mask' = m
       /\ solver_c' = Resync(solver_c, IF cfg.prob_c THEN m ELSE ShapeC(c))
  /\ \E sh \in {SharedStep("test", bidx)} :
       A' = sh.A /\ s_maps' = sh.s_maps /\ coil' = sh.coil
  /\ log' = IF bidx = 0 THEN Append(log, "test") ELSE log
  /\ bidx' = bidx + 1
  /\ UNCHANGED <<dataset, item, fop, fcall, attrs, resumed, epoch_steps, cfg, ctor_c, c, opt, c_list, pc, iter, global_epoch, acc, saved,
                 last, win, step>>

\* run_meta_opt, line 238
FinalCheckpoint ==
  /\ pc = "test"
  /\ bidx = cfg.test_len
  /\ saved' = Snapshot
  /\ log' = Append(log, "checkpoint")
  /\ pc' = "done"
  /\ UNCHANGED <<dataset, item, fop, fcall, A, s_maps, coil, attrs, resumed, epoch_steps, cfg, ctor_c, c, cur_mask, solver_c, opt, c_list, iter, global_epoch,
                 bidx, acc, last, win, step>>

\* _resume, lines 869-876: what the new object has assigned when it calls
\* _init_meta_optimizer
ResumeAttrs == {"log_dir", "image_root", "tb_root", "c"}

\* _init_meta_optimizer, lines 821-834: the attributes it reads
OptimizerReads == {"prob_c", "c"}

\* _resume, lines 878-902: what the rest of _resume assigns
RestoredAttrs ==
  ResumeAttrs \cup {"opt", "scheduler", "train_loader", "A", "global_epoch",
                    "c_list", "recon_alg", "metrics", "tb_logger"}

\* the attributes run_meta_opt and the methods it calls read
\* (lines 220-238, 249-275, 302, 354-359, 553-625, 640-679, 847-852)
LoopReads ==
  {"prob_c", "ROI", "c", "opt", "scheduler", "train_loader", "A", "global_epoch",
   "c_list", "recon_alg", "metrics", "log_dir", "tb_logger"}

\* __init__ with args.resume (lines 37-39): a new learner built by _resume
\* from the snapshot a finished run left
Resume ==
  /\ pc = "done"
  /\ saved.written
  /\ ~resumed
  /\ resumed' = TRUE
  /\ c' = saved.c
  /\ IF OptimizerReads \subseteq ResumeAttrs
     THEN /\ opt' = [lr |-> saved.opt_state, param_is_c |-> TRUE]
          /\ global_epoch' = saved.global_epoch
          /\ c_list' = saved.c_list
          /\ solver_c' = ShapeC(saved.c)
          /\ ctor_c' = ShapeC(saved.c)
          /\ attrs' = RestoredAttrs
          /\ pc' = "ckpt"
          /\ iter' = 0
          /\ bidx' = 0
     ELSE /\ attrs' = ResumeAttrs
          /\ pc' = "error"
          /\ UNCHANGED <<opt, global_epoch, c_list, solver_c, ctor_c, iter, bidx>>
  /\ UNCHANGED <<dataset, item, fop, fcall, log, A, s_maps, coil, cfg, cur_mask, acc, saved, last, win, step, epoch_steps>>

\* args.R and args.keep_center of the modelled calls of test()
TestArgs == {1, 2} \X BOOLEAN

\* test(), line 153: k = int(c.numel() * (1. - 1. / R))
TestK(R) == RFloor(RMul(RInt(NumEl), RSub(ROne, Rat(1, R))))

\* test(), lines 152-170: kthvalue with k out of range, or indexing the
\* 0-dimensional c of measurement weighting with the calibration lines
TestRaises(R, kc) ==
  \/ R > 1 /\ TestK(R) \notin 1 .. NumEl
  \/ kc /\ cfg.measurement_weighting

\* test(), lines 151-172: the mask test() evaluates, made from a copy of c
TestMask(cc, R, kc) ==
  LET thr == IF R > 1
             THEN LET t == KthValue([i \in Idx |-> RAbs(cc[i])], TestK(R))
                  IN  [i \in Idx |-> IF RLt(RAbs(cc[i]), t) THEN RZero ELSE cc[i]]
             ELSE cc
      ctr == IF kc THEN KeepCenter(thr) ELSE thr
  IN  [i \in Idx |-> IF RLt(RZero, ctr[i]) THEN ROne ELSE ctr[i]]

\* test(), lines 145-194, on the learner of a finished run (deterministic
\* variant: the method does not support the probabilistic mask)
StandaloneTest ==
  /\ pc = "done"
  /\ ~cfg.prob_c
  /\ \E a \in TestArgs :
       IF TestRaises(a[1], a[2])
       THEN /\ pc' = "error"
            /\ UNCHANGED <<c, solver_c, global_epoch, bidx>>
       ELSE /\ c' = TestMask(c, a[1], a[2])
            /\ solver_c' = Resync(solver_c, ShapeC(c'))
            /\ global_epoch' = cfg.num_iters + a[1] + (IF a[2] THEN 1 ELSE 0)
            /\ pc' = "stest"
            /\ bidx' = 0
  /\ UNCHANGED <<dataset, item, fop, fcall, log, A, s_maps, coil, attrs, resumed, epoch_steps, cfg, ctor_c, cur_mask, opt, c_list, iter,
                 acc, saved, last, win, step>>

\* one batch of the loop of test(), lines 197-204
StandaloneTestBatch ==
  /\ pc = "stest"
  /\ bidx < cfg.test_len
  /\ \E sh \in {SharedStep("test", bidx)} :
       A' = sh.A /\ s_maps' = sh.s_maps /\ coil' = sh.coil
  /\ bidx' = bidx + 1
  /\ UNCHANGED <<dataset, item, fop, fcall, log, attrs, resumed, epoch_steps, cfg, ctor_c, c, cur_mask, solver_c, opt,
                 c_list, pc, iter, global_epoch, acc, saved, last, win, step>>

Next ==
  \/ Construct
  \/ Resume
  \/ StandaloneTest
  \/ StandaloneTestBatch
  \/ Checkpoint
  \/ ValBatch
  \/ BeginOuterStep
  \/ TrainBatch
  \/ EndOuterStep
  \/ TestBatch
  \/ FinalCheckpoint

Spec == Init /\ [][Next]_vars

\* ------------------------------------------- FourierOperator (fourier.py)
\* hparams.data.image_size of the modelled operators: the transform of a
\* 2 x 2 image needs the twiddle factors 1 and -1 only
FftSize == 2

FLines == 0 .. (FftSize - 1)
FPos == FLines \X FLines

\* position of a flattened index and back ([H, W] row-major)
PosOf(i) == <<i \div FftSize, i % FftSize>>
FlatOf(p) == p[1] * FftSize + p[2]

\* complex numbers <<re, im>> of exact rationals
CZero == <<RZero, RZero>>
CReal(a) == <<a, RZero>>
CAdd(a, b) == <<RAdd(a[1], b[1]), RAdd(a[2], b[2])>>
CSub(a, b) == <<RSub(a[1], b[1]), RSub(a[2], b[2])>>
CScale(q, a) == <<RMul(q, a[1]), RMul(q, a[2])>>
CAbs2(a) == RAdd(RMul(a[1], a[1]), RMul(a[2], a[2]))

RECURSIVE CSum(_, _)
CSum(f, S) ==
  IF S = {} THEN CZero
  ELSE LET p == CHOOSE q \in S : TRUE IN CAdd(f[p], CSum(f, S \ {p}))

RECURSIVE RSum(_, _)
RSum(f, S) ==
  IF S = {} THEN RZero
  ELSE LET p == CHOOSE q \in S : TRUE IN RAdd(f[p], RSum(f, S \ {p}))

\* torch.fft.fftshift(x, dim=(-2, -1)): roll by n // 2
FftShift(x) ==
  [p \in FPos |-> x[<<(p[1] + FftSize - FftSize \div 2) % FftSize,
                      (p[2] + FftSize - FftSize \div 2) % FftSize>>]]

\* torch.fft.ifftshift(x, dim=(-2, -1)): roll by -(n // 2)
IfftShift(x) ==
  [p \in FPos |-> x[<<(p[1] + FftSize \div 2) % FftSize,
                      (p[2] + FftSize \div 2) % FftSize>>]]

\* exp(-2 pi i k n / 2), and its conjugate
Twiddle(k, n) == IF (k * n) % 2 = 0 THEN ROne ELSE RNeg(ROne)

\* torch.fft.fft2 / ifft2 with norm='ortho': 1 / sqrt(H * W) = 1 / FftSize
Fft2(x) ==
  [k \in FPos |->
     LET term == [n \in FPos |->
                    CScale(RMul(Twiddle(k[1], n[1]), Twiddle(k[2], n[2])), x[n])]
     IN  CScale(Rat(1, FftSize), CSum(term, FPos))]

\* FourierOperator.fft: centered, orthogonal
Fft(x) == LET sx == FftShift(x) f == Fft2(sx) IN IfftShift(f)

\* FourierOperator.ifft (the conjugate twiddles of size 2 are the same)
Ifft(x) == LET sx == IfftShift(x) f == Fft2(sx) IN FftShift(f)

\* the images given to the operator ([1, 1, H, W], real)
FImages ==
  { [p \in FPos |-> CReal(RInt(IF p \in S THEN 1 ELSE 0))] :
      S \in {{<<0, 0>>}, {<<0, 1>>, <<1, 1>>}, {<<0, 0>>, <<0, 1>>, <<1, 0>>}} }

\* _make_fft_mask: 0/1 masks with m kept coefficients
FMasks ==
  { [p \in FPos |-> IF p \in S THEN ROne ELSE RZero] :
      S \in {FPos, {<<0, 0>>, <<1, 1>>}, {<<0, 1>>}} }

RECURSIVE Ascending(_)
Ascending(S) ==
  IF S = {} THEN <<>>
  ELSE LET lo == CHOOSE a \in S : \A b \in S : a <= b
       IN  <<lo>> \o Ascending(S \ {lo})

\* kept_inds: the flattened indices the mask keeps
KeptInds(mask) == Ascending({FlatOf(p) : p \in {q \in FPos : mask[q] # RZero}})

NoiseTypes == {"gaussian", "gaussian_nonwhite", "laplace"}

\* the operators: the fields forward, add_noise and get_measurements_image read
Operators ==
  { [A_mask |-> mk, kept_inds |-> KeptInds(mk), noisy |-> nz, noise_type |-> nt,
     noise_std |-> ROne,
     noise_vars |-> IF nz /\ nt = "gaussian_nonwhite" THEN <<1, 2>> ELSE RZero,
     learn_samples |-> ls] :
      mk \in FMasks, nz \in BOOLEAN, nt \in NoiseTypes, ls \in BOOLEAN }

\* the value torch.randn gives every entry of one noise draw
NoiseDraws == {RNeg(ROne), <<1, 2>>}

\* a call without targets draws nothing
DrawsFor(targets) == IF targets THEN NoiseDraws ELSE {RZero}

\* add_noise(Ax), lines 27-37; raises for an unsupported noise type and when
\* the num_measurements * 2 noise values cannot be viewed as Ax.shape[1:]
AddNoise(op, Ax, eps) ==
  IF ~op.noisy THEN [ok |-> TRUE, Ax |-> Ax, noised |-> FALSE]
  ELSE IF op.noise_type \notin {"gaussian", "gaussian_nonwhite"}
  THEN [ok |-> FALSE, Ax |-> Ax, noised |-> FALSE]
  ELSE IF Cardinality(DOMAIN Ax) # Len(op.kept_inds)
  THEN [ok |-> FALSE, Ax |-> Ax, noised |-> FALSE]
  ELSE LET nz == IF op.noise_type = "gaussian" THEN RMul(eps, op.noise_std)
                 ELSE RMul(RMul(eps, op.noise_std), op.noise_vars)
       IN  [ok |-> TRUE, noised |-> TRUE,
            Ax |-> [i \in DOMAIN Ax |-> <<RAdd(Ax[i][1], nz), RAdd(Ax[i][2], nz)>>]]

\* forward, lines 90-98: A_mask * fft(x), the whole grid when samples are
\* learned and the kept coefficients in flattened order otherwise
MaskedTransform(op, x) ==
  LET fx == Fft(x)
      full == [p \in FPos |-> CScale(op.A_mask[p], fx[p])]
  IN  IF op.learn_samples THEN full
      ELSE [i \in 1 .. Len(op.kept_inds) |-> full[PosOf(op.kept_inds[i])]]

ForwardNoisy(op, x, targets, eps) == AddNoise(op, MaskedTransform(op, x), eps)

\* forward(x, targets), lines 89-103
Forward(op, x, targets, eps) ==
  IF targets THEN AddNoise(op, MaskedTransform(op, x), eps)
  ELSE [ok |-> TRUE, Ax |-> MaskedTransform(op, x), noised |-> FALSE]

\* the weights get_measurements_image can be given in place of the mask
Overrides ==
  {[p \in FPos |-> IF p = <<0, 1>> THEN ROne ELSE RZero], [p \in FPos |-> <<1, 2>>]}

MeasImageStores(op, x, targets, cov, eps) ==
  LET wgt == IF cov = <<>> THEN op.A_mask ELSE cov
      fx == Fft(x)
      full == [p \in FPos |-> CScale(wgt[p], fx[p])]
  IN  [ok |-> TRUE, noised |-> FALSE, Ax |-> full,
       op |-> [op EXCEPT !.A_mask = wgt, !.kept_inds = KeptInds(wgt)],
       mag2 |-> [p \in FPos |-> CAbs2(full[p])],
       inv2 |-> LET inv == Ifft(full) IN [p \in FPos |-> CAbs2(inv[p])]]

\* get_measurements_image(x, targets, c), lines 112-139; op is the operator
\* as the call leaves it, mag2 and inv2 the squares of "Mag" and "Inverted"
MeasImage(op, x, targets, cov, eps) ==
  LET wgt == IF cov = <<>> THEN op.A_mask ELSE cov
      fx == Fft(x)
      full == [p \in FPos |-> CScale(wgt[p], fx[p])]
      kept == [i \in 1 .. Len(op.kept_inds) |-> full[PosOf(op.kept_inds[i])]]
      nz == IF targets THEN AddNoise(op, kept, eps)
            ELSE [ok |-> TRUE, Ax |-> kept, noised |-> FALSE]
      idx(p) == CHOOSE i \in 1 .. Len(op.kept_inds) : op.kept_inds[i] = FlatOf(p)
      Ax == [p \in FPos |->
               IF \E i \in 1 .. Len(op.kept_inds) : op.kept_inds[i] = FlatOf(p)
               THEN nz.Ax[idx(p)] ELSE full[p]]
  IN  [ok |-> nz.ok, noised |-> nz.noised, Ax |-> Ax, op |-> op,
       mag2 |-> [p \in FPos |-> CAbs2(Ax[p])],
       inv2 |-> LET inv == Ifft(Ax) IN [p \in FPos |-> CAbs2(inv[p])]]

\* the scalar hyperparameters given to the likelihood (c_type 0)
LikelihoodWeights == {ROne, <<1, 2>>}

\* log_cond_likelihood_loss(c, y, A, x), lines 58-82, for a scalar c:
\* Ax = A(x, targets=False); (c / 2) * ||Ax - y||^2
LikelihoodLoss(op, cw, y, x, eps) ==
  LET f == Forward(op, x, FALSE, eps)
      resid == [i \in DOMAIN y |-> CSub(f.Ax[i], y[i])]
  IN  [targets |-> FALSE, Ax |-> f.Ax, noised |-> f.noised,
       val |-> RMul(RMul(cw, <<1, 2>>), RSum([i \in DOMAIN y |-> CAbs2(resid[i])], DOMAIN y))]

\* gradient_log_cond_likelihood(c, y, A, x), lines 20-24, for a scalar c:
\* Ax = A(x, targets=False); val is c * (Ax - y), which the operator's adjoint
\* (problems.problem.ForwardOperator) maps back to the image
LikelihoodGrad(op, cw, y, x, eps) ==
  LET f == Forward(op, x, FALSE, eps)
  IN  [targets |-> FALSE, Ax |-> f.Ax, noised |-> f.noised,
       val |-> [i \in DOMAIN y |-> CScale(cw, CSub(f.Ax[i], y[i]))]]

\* a FourierOperator exists and has not been called; no learner is built
FourierInit ==
  /\ Unbuilt(CHOOSE k \in Configs : k.measurement_weighting /\ ~k.decay
                                    /\ ~k.measurement_selection
                                    /\ k.train_shape = <<2, 1>>)
  /\ fop \in Operators
  /\ fcall = [fn |-> "none", x |-> <<>>, targets |-> FALSE, cov |-> <<>>, ok |-> TRUE,
              noised |-> FALSE, Ax |-> <<>>, val |-> <<>>, y_noised |-> FALSE,
              op |-> fop]
  /\ dataset = <<>>
  /\ item = <<>>

learner == <<cfg, c, cur_mask, solver_c, ctor_c, opt, c_list, pc, iter, global_epoch,
             bidx, acc, saved, last, win, step, attrs, resumed, epoch_steps, A,
             s_maps, coil, log>>

\* A.forward(x, targets)
CallForward ==
  /\ fop # <<>>
  /\ \E x \in FImages, targets \in BOOLEAN :
     \E eps \in DrawsFor(targets) :
     \E f \in {Forward(fop, x, targets, eps)} :
       fcall' = [fn |-> "forward", x |-> x, targets |-> targets, cov |-> <<>>,
                 ok |-> f.ok, noised |-> f.noised, Ax |-> f.Ax, val |-> <<>>,
                 y_noised |-> FALSE, op |-> fop]
  /\ UNCHANGED <<fop, learner, dataset, item>>

\* log_cond_likelihood_loss against the measurement y the last forward gave
CallLoss ==
  /\ fop # <<>>
  /\ fcall.fn = "forward" /\ fcall.ok
  /\ \E x \in FImages, cw \in LikelihoodWeights, eps \in NoiseDraws :
     \E l \in {LikelihoodLoss(fop, cw, fcall.Ax, x, eps)} :
       fcall' = [fn |-> "loss", x |-> x, targets |-> l.targets, cov |-> <<>>,
                 ok |-> TRUE, noised |-> l.noised, Ax |-> l.Ax, val |-> l.val,
                 y_noised |-> fcall.noised, op |-> fop]
  /\ UNCHANGED <<fop, learner, dataset, item>>

\* gradient_log_cond_likelihood against the measurement y the last forward gave
CallGrad ==
  /\ fop # <<>>
  /\ fcall.fn = "forward" /\ fcall.ok
  /\ \E x \in FImages, cw \in LikelihoodWeights, eps \in NoiseDraws :
     \E l \in {LikelihoodGrad(fop, cw, fcall.Ax, x, eps)} :
       fcall' = [fn |-> "grad", x |-> x, targets |-> l.targets, cov |-> <<>>,
                 ok |-> TRUE, noised |-> l.noised, Ax |-> l.Ax, val |-> l.val,
                 y_noised |-> fcall.noised, op |-> fop]
  /\ UNCHANGED <<fop, learner, dataset, item>>

\* A.get_measurements_image(x, targets, c)
CallMeasImage ==
  /\ fop # <<>>
  /\ \E x \in FImages, targets \in BOOLEAN, cov \in {<<>>} \cup Overrides :
     \E eps \in DrawsFor(targets) :
     \E r \in {MeasImage(fop, x, targets, cov, eps)} :
       /\ fcall' = [fn |-> "get_measurements_image", x |-> x, targets |-> targets,
                    cov |-> cov, ok |-> r.ok, noised |-> r.noised, Ax |-> r.Ax,
                    val |-> [mag2 |-> r.mag2, inv2 |-> r.inv2],
                    y_noised |-> FALSE, op |-> fop]
       /\ fop' = r.op
  /\ UNCHANGED <<learner, dataset, item>>

FourierNext ==
  \/ CallForward
  \/ CallLoss
  \/ CallGrad
  \/ CallMeasImage

FourierSpec == FourierInit /\ [][FourierNext]_vars

\* ------------------------------------- BrainMultiCoil (mri_dataloaders.py)
\* the slice counts __init__ reads from the scans' files (lines 36-40)
SliceCounts ==
  UNION { [1 .. n -> 0 .. MaxSlices] : n \in 1 .. MaxScans }

RECURSIVE Cumsum(_, _)
\* np.cumsum(num_slices)[k - 1]
Cumsum(ns, k) == IF k = 0 THEN 0 ELSE ns[k] + Cumsum(ns, k - 1)

\* line 43: slice_mapper = np.cumsum(self.num_slices) - 1
SliceMapper(ns) == [k \in 1 .. Len(ns) |-> Cumsum(ns, k) - 1]

\* the datasets __init__ builds without load_slice_info (lines 32-43)
Datasets == { [num_slices |-> ns, slice_mapper |-> SliceMapper(ns)] : ns \in SliceCounts }

\* __len__, line 56: int(np.sum(self.num_slices))
DatasetLen(d) == Cumsum(d.num_slices, Len(d.num_slices))

\* line 77: np.where((self.slice_mapper - idx) >= 0)[0][0], counted from 0
ScanIdx(d, idx) ==
  LET hits == {k \in 1 .. Len(d.slice_mapper) : d.slice_mapper[k] - idx >= 0}
  IN  (CHOOSE k \in hits : \A j \in hits : k <= j) - 1

SliceIdxOffByOne(d, scan, idx) ==
  IF scan = 0 THEN idx
  ELSE idx - d.slice_mapper[scan + 1] + d.num_slices[scan + 1]

\* lines 79-80: the offset of idx inside its scan
SliceIdx(d, scan, idx) ==
  IF scan = 0 THEN idx
  ELSE idx - d.slice_mapper[scan + 1] + d.num_slices[scan + 1] - 1

\* __getitem__(idx), lines 77-80: the scan and the slice that are loaded
GetItem(d, idx) ==
  LET scan == ScanIdx(d, idx)
  IN  [scan_idx |-> scan, slice_idx |-> SliceIdx(d, scan, idx)]

\* a BrainMultiCoil exists and has not been called
DatasetInit ==
  /\ Unbuilt(CHOOSE k \in Configs : k.measurement_weighting /\ ~k.decay
                                    /\ ~k.measurement_selection
                                    /\ k.train_shape = <<2, 1>>)
  /\ fop = <<>>
  /\ fcall = <<>>
  /\ dataset \in Datasets
  /\ item = [fn |-> "none", idx |-> 0, scan_idx |-> 0, slice_idx |-> 0, len |-> 0]

\* len(dataset)
CallLen ==
  /\ dataset # <<>>
  /\ item' = [fn |-> "__len__", idx |-> 0, scan_idx |-> 0, slice_idx |-> 0,
              len |-> DatasetLen(dataset)]
  /\ UNCHANGED <<dataset, learner, fop, fcall>>

\* dataset[idx] for an index the sampler of a DataLoader can give
CallGetItem ==
  /\ dataset # <<>>
  /\ \E idx \in 0 .. (DatasetLen(dataset) - 1) :
     \E r \in {GetItem(dataset, idx)} :
       item' = [fn |-> "__getitem__", idx |-> idx, scan_idx |-> r.scan_idx,
                slice_idx |-> r.slice_idx, len |-> 0]
  /\ UNCHANGED <<dataset, learner, fop, fcall>>

DatasetNext ==
  \/ CallLen
  \/ CallGetItem

DatasetSpec == DatasetInit /\ [][DatasetNext]_vars

\* ================================================================ claims
\* a batch is about to be processed: its _shared_step calls reconstruct next
ReconPending ==
  \/ pc = "val" /\ ValDue
  \/ pc = "train" /\ bidx < TrainLen
  \/ pc = "test" /\ bidx < cfg.test_len

\* C1 (resync ordering): whenever reconstruct is about to be called, in a
\* train, validation or test pass, the parameter the solver was last given
\* is the shaped form of the current c (the current mask sample in the
\* probabilistic variant): no optimizer step has changed c since the push.
C1_ResyncOrdering == ReconPending => solver_c = UsedC

\* a reconstruct is pending after an optimizer step that changed c
C1_Witness ==
  /\ ReconPending
  /\ step.n >= 1
  /\ step.after # step.before
  /\ solver_c # ctor_c

\* C2 (no stale operator): for every training batch, the hyperparameter that
\* weighted the residual in _mle_grad is the value the solver held when it
\* reconstructed that batch.
C2_NoStaleOperator == last.n >= 1 => last.used_c = last.recon_c

\* the first training batch after a validation pass that resampled the mask
\* to a mask other than the constructor's
C2_Witness ==
  /\ cfg.prob_c
  /\ last.n = 1
  /\ last.recon_c # ctor_c
  /\ last.used_c = last.recon_c

\* C3 (sign convention): the meta-gradient of every batch is minus the HVP
\* plus the analytic regularizer gradient, entry by entry, in both variants.
C3_SignConvention ==
  last.n >= 1 =>
    \A i \in Idx : last.out[i] = RAdd(RNeg(last.hvp[i]), last.reg[i])

\* a batch whose HVP and regularizer gradient are both non-zero
C3_Witness ==
  /\ last.n >= 1
  /\ \E i \in Idx : last.hvp[i] # RZero /\ last.reg[i] # RZero

RECURSIVE WinGradSum(_, _)
\* entry i of the sum of the per-batch meta-gradients of a window
WinGradSum(w, i) ==
  IF w = <<>> THEN RZero ELSE RAdd(w[1].grad[i], WinGradSum(Tail(w), i))

RECURSIVE WinSamples(_)
\* the number of samples of a window
WinSamples(w) == IF w = <<>> THEN 0 ELSE w[1].size + WinSamples(Tail(w))

\* C4 (normalization): the gradient handed to _opt_step is the sum of the
\* window's per-batch meta-gradients divided by the window's sample count.
C4_Normalization ==
  step.n >= 1 =>
    \A i \in Idx :
      step.grad[i] = RDivInt(WinGradSum(step.win, i), WinSamples(step.win))

\* a step over two batches of two samples with a non-zero gradient
C4_Witness ==
  /\ step.n >= 1
  /\ Len(step.win) = 2
  /\ WinSamples(step.win) = 4
  /\ \E i \in Idx : step.grad[i] # RZero

RECURSIVE WinData(_)
\* the samples of a window, in order, as one batch
WinData(w) == IF w = <<>> THEN <<>> ELSE w[1].data \o WinData(Tail(w))

\* C5 (normalization invariance): the gradient a step gets from its window of
\* k batches equals the normalized meta-gradient of the same samples taken as
\* a single batch, for every regularizer configuration.
C5_NormalizationInvariance ==
  step.n >= 1 =>
    \A i \in Idx :
      step.grad[i] =
        RDivInt(MleGrad(step.before, WinData(step.win)).out[i], WinSamples(step.win))

\* line i lies in the calibration range
InAcs(i) ==
  /\ i >= (ImageSize - NumAcsLines) \div 2
  /\ i < (ImageSize + NumAcsLines) \div 2

\* C6 (center-keep): with measurement selection and keep_center, after every
\* _opt_step each entry of c in the calibration range (the central square
\* for the random pattern) is exactly 1.
C6_CenterKeep ==
  (/\ ~cfg.prob_c /\ cfg.measurement_selection /\ cfg.keep_center
   /\ step.n >= 1 /\ pc # "error") =>
    \A a \in Lines, b \in Lines :
      IF cfg.sample_pattern = "random"
      THEN (InAcs(a) /\ InAcs(b)) => c[a * ImageSize + b] = ROne
      ELSE InAcs(a) => c[a] = ROne

\* the projection had zeroed a calibration entry and center-keep restored it
C6_Witness ==
  /\ ~cfg.prob_c /\ cfg.measurement_selection /\ cfg.keep_center
  /\ cfg.reg_hyperparam
  /\ step.n >= 1
  /\ \E i \in CenterIdx : step.proj[i] = RZero /\ c[i] = ROne

\* ceil of a rational
RCeil(a) == -((-a[1]) \div a[2])

NonZero(cc) == Cardinality({i \in Idx : cc[i] # RZero})

\* C7 (end-to-end hard thresholding): horizontal pattern, deterministic c,
\* hard thresholding at scale 1/2: after an outer step c has at most
\* ceil(image_size * 1/2) non-zero entries.
C7_HardSparsity ==
  (/\ ~cfg.prob_c /\ cfg.measurement_selection
   /\ cfg.sample_pattern = "horizontal"
   /\ cfg.reg_hyperparam /\ cfg.reg_hyperparam_type = "hard"
   /\ cfg.reg_hyperparam_scale = <<1, 2>>
   /\ step.n >= 1 /\ pc # "error") =>
    NonZero(c) <= RCeil(RMul(RInt(ImageSize), <<1, 2>>))

HardRun == ~cfg.prob_c /\ cfg.reg_hyperparam /\ cfg.reg_hyperparam_type = "hard"

\* the step applied the projection to the result of the previous step's
\* projection, with no gradient update in between
Reprojected == step.n >= 2 /\ step.upd = step.before /\ pc # "error"

\* C8 as stated (projection idempotence): in hard mode, thresholding, clamp
\* and (when enabled) center-keep applied again to their own result leave c
\* as it is.
C8_Idempotence == (HardRun /\ Reprojected) => step.after = step.before

\* C8 as amended: without center-keep, thresholding followed by the clamp
\* applied again to its own result leaves c as it is.
C8_IdempotenceNoCenter ==
  (HardRun /\ Reprojected /\ ~(cfg.measurement_selection /\ cfg.keep_center)) =>
    step.after = step.before

\* a second projection of a c whose first projection had zeroed an entry and
\* kept an entry strictly between 0 and 1
C8_Witness ==
  /\ HardRun /\ Reprojected
  /\ ~(cfg.measurement_selection /\ cfg.keep_center)
  /\ \E i \in Idx : step.before[i] = RZero
  /\ \E i \in Idx : RLt(RZero, step.before[i]) /\ RLt(step.before[i], ROne)

SoftRun ==
  /\ ~cfg.prob_c /\ cfg.reg_hyperparam /\ cfg.reg_hyperparam_type = "soft"
  /\ step.n >= 1 /\ pc # "error"

\* C9 (soft-threshold fixed point): in soft mode every entry of the
\* post-update c with |c_i| <= scale is exactly 0 after the projection,
\* before center-keep.
C9_SoftFixedPoint ==
  SoftRun =>
    \A i \in Idx :
      RLe(RAbs(step.upd[i]), cfg.reg_hyperparam_scale) => step.proj[i] = RZero

\* a step whose post-update c had a positive and a negative entry within
\* [-scale, scale]
C9_Witness ==
  /\ SoftRun
  /\ \E i \in Idx : RLt(RZero, step.upd[i]) /\ RLe(step.upd[i], cfg.reg_hyperparam_scale)
  /\ \E i \in Idx : RLt(step.upd[i], RZero)
                    /\ RLe(RNeg(cfg.reg_hyperparam_scale), step.upd[i])

\* the proximal L1 operator with threshold s
Prox(x, s) ==
  IF RLt(s, x) THEN RSub(x, s)
  ELSE IF RLt(x, RNeg(s)) THEN RAdd(x, s)
  ELSE RZero

\* C10 as stated (soft shrinkage): the projection of the step is the
\* proximal L1 operator of the post-update c.
C10_SoftShrinkage ==
  SoftRun => \A i \in Idx : step.proj[i] = Prox(step.upd[i], cfg.reg_hyperparam_scale)

\* C10 as amended: the projection of the step is the proximal L1 operator of
\* the post-update c clamped to [0, 1].
C10_SoftShrinkageClamped ==
  SoftRun =>
    \A i \in Idx :
      step.proj[i] =
        RMin(RMax(Prox(step.upd[i], cfg.reg_hyperparam_scale), RZero), ROne)

\* a step that shrank an entry above scale to a value inside (0, 1), cut an
\* entry to 1 and raised an entry under -scale to 0
C10_Witness ==
  /\ SoftRun
  /\ \E i \in Idx :
       /\ RLt(cfg.reg_hyperparam_scale, step.upd[i])
       /\ RLt(RZero, step.proj[i]) /\ RLt(step.proj[i], ROne)

UnknownFamily == cfg.reg_hyperparam /\ cfg.reg_hyperparam_type \notin KnownRegTypes

\* C11 (unrecognized regularizer family): a run with the regularizer enabled
\* and a family other than soft, hard or l1 performs no reconstruction of a
\* training batch and leaves c as constructed.
C11_FailsBeforeEffects ==
  UnknownFamily => (last.n = 0 /\ step.n = 0 /\ c = InitC)

UnsupportedLayout ==
  /\ ~cfg.prob_c /\ cfg.measurement_selection
  /\ cfg.sample_pattern \notin {"horizontal", "vertical", "random"}

\* C12 (unsupported layout): with measurement selection and a sample pattern
\* other than horizontal, vertical or random, construction fails in _init_c:
\* no dataset is loaded, no solver is built, no optimizer step is taken, and
\* _shape_c raises for the same layout.
C12_UnsupportedLayout ==
  UnsupportedLayout =>
    /\ pc \in {"new", "error"}
    /\ "train_loader" \notin attrs /\ "recon_alg" \notin attrs /\ "c" \notin attrs
    /\ step.n = 0 /\ last.n = 0
    /\ ShapeCRaises

\* the constructor was run for an unsupported layout and stopped in _init_c
C12_Witness ==
  /\ UnsupportedLayout
  /\ pc = "error"
  /\ attrs = {"prob_c", "ROI"}

\* C13 (analytic regularizer gradient): the regularizer gradient of every
\* batch is sign(c) * scale when the regularizer is enabled with the l1
\* family in the deterministic variant, and zero otherwise.
C13_RegGradOnlyForL1 ==
  last.n >= 1 =>
    \A i \in Idx :
      last.reg[i] =
        IF ~cfg.prob_c /\ cfg.reg_hyperparam /\ cfg.reg_hyperparam_type = "l1"
        THEN RMul(RSign(last.c[i]), cfg.reg_hyperparam_scale)
        ELSE RZero

\* C14 (checkpoint round trip): a learner constructed with resume from the
\* snapshot of _checkpoint is built without error, has every attribute the
\* outer loop reads, and holds the saved c, c_list, global_epoch and
\* optimizer state.
C14_ResumeRoundTrip ==
  resumed =>
    /\ pc # "error"
    /\ LoopReads \subseteq attrs
    /\ (pc = "ckpt" /\ iter = 0) =>
         /\ c = saved.c /\ c_list = saved.c_list
         /\ global_epoch = saved.global_epoch /\ opt.lr = saved.opt_state

\* C15 as stated (single writer): once the learner is constructed, every
\* change of the value of c is made by a call of _opt_step.
C15_SingleWriter ==
  [][(pc # "new" /\ resumed' = resumed /\ c' # c) => step'.n = step.n + 1]_vars

\* C15 as amended: every change of the value of c is made by a call of
\* _opt_step or by the standalone test(), which replaces c by a copy whose
\* entries are 0, 1 or an unchanged negative value; validation and test
\* passes, the meta-gradient and the checkpoint leave c as it is.
C15_WritersOfC ==
  [][(pc # "new" /\ resumed' = resumed /\ c' # c) =>
       \/ step'.n = step.n + 1
       \/ /\ pc = "done" /\ pc' = "stest"
          /\ \A i \in Idx : \/ c'[i] \in {RZero, ROne}
                             \/ (c'[i] = c[i] /\ RLt(c[i], RZero))]_vars

\* test() has run through its loader after a run of two optimizer steps and
\* left a c other than the one the last step produced
C15_Witness ==
  /\ pc = "stest" /\ bidx = cfg.test_len
  /\ step.n >= 2
  /\ step.after # step.before
  /\ c # step.after

\* C16 (the step uses its gradient): for every call of _opt_step the tensor
\* that received meta_grad is the optimizer's parameter, so the post-update c
\* is c - lr * meta_grad.
C16_StepUsesGradient ==
  step.n >= 1 =>
    /\ step.held
    /\ \A i \in Idx :
         step.upd[i] = RSub(step.before[i], RMul(step.lr, step.grad[i]))

\* a pass over the training loader has ended
PassEnded == pc = "outer_ret" \/ (pc = "train" /\ bidx = TrainLen)

C20_RoiKeepsShape ==
  (cfg.ROI # <<>> /\ last.n >= 1) =>
    /\ last.g_shape = <<ImageSize, ImageSize>>
    /\ pc # "error"

\* C18: FourierOperator.forward adds noise only when called with
\* targets=True on a noisy operator; with targets=False it returns the masked
\* transform unchanged, and the likelihood loss and its explicit gradient
\* evaluate the operator with targets=False.
C18_NoiseOnlyForTargets ==
  (fcall.fn \in {"forward", "loss", "grad"} /\ fcall.ok) =>
    /\ fcall.fn \in {"loss", "grad"} => ~fcall.targets
    /\ ~fcall.targets => fcall.Ax = MaskedTransform(fop, fcall.x)
    /\ fcall.noised => (fcall.targets /\ fop.noisy)
    /\ fcall.Ax # MaskedTransform(fop, fcall.x) => fcall.noised

\* the gradient of the likelihood is evaluated on a noisy operator, against
\* a measurement that forward(targets=True) had noised
C18_Witness ==
  /\ fcall.fn = "grad"
  /\ fop.noisy
  /\ fcall.y_noised
  /\ fcall.Ax = MaskedTransform(fop, fcall.x)
  /\ \E i \in DOMAIN fcall.val : fcall.val[i] # CZero

\* C19: get_measurements_image with a supplied mask/weight c uses that c in
\* place of the stored mask for the call and leaves the operator's stored
\* mask, kept indices and noise parameters as they were.
C19_OverrideLeavesOperator ==
  fcall.fn = "get_measurements_image" =>
    /\ fop = fcall.op
    /\ (fcall.ok /\ ~fcall.targets) =>
         LET wgt == IF fcall.cov = <<>> THEN fop.A_mask ELSE fcall.cov
             fx == Fft(fcall.x)
         IN  /\ fcall.Ax = [p \in FPos |-> CScale(wgt[p], fx[p])]
             /\ fcall.val.mag2 = [p \in FPos |-> CAbs2(CScale(wgt[p], fx[p]))]

\* an override that differs from the stored mask and changes the image
C19_Witness ==
  /\ fcall.fn = "get_measurements_image"
  /\ fcall.ok
  /\ fcall.cov # <<>>
  /\ fcall.cov # fop.A_mask
  /\ LET fx == Fft(fcall.x)
     IN  fcall.val.mag2 # [p \in FPos |-> CAbs2(CScale(fop.A_mask[p], fx[p]))]

\* C21: constructing a deterministic learner fails unless exactly one of
\* measurement_weighting and measurement_selection is enabled: no run of the
\* deterministic variant starts with both or neither.
C21_ExactlyOneParameterization ==
  /\ (~cfg.prob_c /\ cfg.measurement_weighting = cfg.measurement_selection) =>
       /\ pc \in {"new", "error"}
       /\ "c" \notin attrs /\ "recon_alg" \notin attrs
       /\ last.n = 0 /\ step.n = 0 /\ ~saved.written
  /\ (~cfg.prob_c /\ pc \notin {"new", "error"}) =>
       cfg.measurement_weighting # cfg.measurement_selection

\* construction has failed on a configuration that enables both
C21_Witness ==
  /\ ~cfg.prob_c
  /\ cfg.measurement_weighting /\ cfg.measurement_selection
  /\ pc = "error"
  /\ attrs = EarlyAttrs

\* C22: for every batch of a train, validation or test pass the solver's
\* coil maps are set to the batch's coil maps before reconstruct, and the
\* forward operator used for post-processing, metrics and the meta-gradient
\* is built from that same batch's coil maps.
C22_CoilMapsPerBatch ==
  coil.n > 0 =>
    /\ coil.recon = coil.batch
    /\ coil.post = coil.batch
    /\ coil.metrics = coil.batch
    /\ coil.loader = "train" => coil.grad = coil.batch
    /\ s_maps = coil.batch /\ A = coil.batch

\* a training batch processed while the solver still held the coil maps of
\* a different, earlier batch
C22_Witness ==
  /\ coil.n >= 2
  /\ coil.loader = "train"
  /\ coil.prev # NoMaps
  /\ coil.prev # coil.batch
  /\ last.n >= 1

\* the entries of the post-update c that the thresholding of the last step
\* changed
C23_Zeroed == {i \in Idx : step.thr[i] # step.upd[i]}

C24_AccumulatorReset ==
  /\ pc = "train" =>
       /\ \A i \in Idx : acc.meta_grad[i] = WinGradSum(win, i)
       /\ acc.n_samples = WinSamples(win)
       /\ win = <<>> => (acc.meta_grad = VZero /\ acc.n_samples = 0)
       /\ Len(win) < WindowLen
  /\ step.n >= 1 =>
       /\ Len(step.win) = WindowLen
       /\ step.n_samples = WinSamples(step.win)
       /\ \A i \in Idx : RMul(step.grad[i], RInt(step.n_samples)) = WinGradSum(step.win, i)

\* a window starts immediately after a step that had a non-zero gradient,
\* with batches of the pass still to come
C24_Witness ==
  /\ pc = "train"
  /\ 0 < bidx /\ bidx < TrainLen
  /\ win = <<>>
  /\ epoch_steps >= 1
  /\ \E i \in Idx : step.grad[i] # RZero
  /\ acc.meta_grad = VZero /\ acc.n_samples = 0

\* the effective batches_per_iter of the configuration
C25_Effective ==
  IF cfg.batches_per_iter < 0 \/ cfg.batches_per_iter > cfg.train_shape[1]
  THEN cfg.train_shape[1] ELSE cfg.batches_per_iter

\* C25 (trailing batches are dropped): when the number of training batches
\* is not a multiple of the effective batches_per_iter, the meta-gradients
\* of the batches after the last completed window are never applied to c:
\* every step is made of the batches of one completed window of one pass,
\* and a pass starts with nothing accumulated.
C25_TrailingDropped ==
  /\ step.n >= 1 =>
       /\ \A n \in 1 .. Len(step.win) :
            /\ step.win[n].epoch = step.win[1].epoch
            /\ step.win[n].i = step.win[1].i + n - 1
            /\ step.win[n].i < (cfg.train_shape[1] \div C25_Effective) * C25_Effective
       /\ step.win[1].i % C25_Effective = 0
       /\ \A i \in Idx :
            RMul(step.grad[i], RInt(WinSamples(step.win))) = WinGradSum(step.win, i)
  /\ pc = "train" =>
       /\ \A n \in 1 .. Len(win) : win[n].epoch = global_epoch
       /\ \A i \in Idx : acc.meta_grad[i] = WinGradSum(win, i)

\* a pass of three batches with batches_per_iter 2 left a trailing batch
\* with a non-zero meta-gradient, and the next pass has taken its step
C25_Witness ==
  /\ cfg.train_shape[1] = 3 /\ cfg.batches_per_iter = 2
  /\ step.n >= 2
  /\ step.win[1].epoch >= 1
  /\ pc = "train" /\ bidx = TrainLen
  /\ Len(win) = 1 /\ win[1].i = 2
  /\ \E i \in Idx : win[1].grad[i] # RZero

\* _run_outer_step is entered
C26_Entered == pc = "val" /\ ~ValDue

\* batches_per_iter is negative or larger than the number of training batches
C26_WholeLoader ==
  cfg.batches_per_iter < 0 \/ cfg.batches_per_iter > cfg.train_shape[1]

\* C26: with batches_per_iter equal to 0, _run_outer_step returns without
\* calling reconstruct and leaves c, c_list, the optimizer and scheduler state
\* and the solver's parameter unchanged; with batches_per_iter negative or
\* larger than the number of training batches the window is the whole loader.
C26_ZeroAndWholeLoader ==
  /\ [][(C26_Entered /\ cfg.batches_per_iter = 0) =>
          /\ pc' = "outer_ret"
          /\ c' = c /\ c_list' = c_list /\ opt' = opt /\ solver_c' = solver_c
          /\ cur_mask' = cur_mask
          /\ last'.n = last.n /\ coil'.n = coil.n /\ step'.n = step.n]_vars
  /\ [](pc = "outer_ret" => cfg.batches_per_iter = 0)
  /\ []((C26_WholeLoader /\ pc = "train") =>
          acc.num_batches + Len(win) = cfg.train_shape[1])
  /\ []((C26_WholeLoader /\ step.n >= 1) => Len(step.win) = cfg.train_shape[1])

\* the second pass of a run with batches_per_iter 0 has returned: nothing
\* was reconstructed and c is as it was created
C26_Witness ==
  /\ cfg.batches_per_iter = 0
  /\ pc = "outer_ret"
  /\ global_epoch >= 1
  /\ last.n = 0 /\ step.n = 0
  /\ c = InitC /\ c_list = <<InitC>> /\ opt = NewOpt

RECURSIVE C27_Iterations(_)
\* what iterations i, i + 1, ... of run_meta_opt do, in order
C27_Iterations(i) ==
  IF i >= cfg.num_iters THEN <<>>
  ELSE (IF i % cfg.checkpoint_iters = 0 THEN <<"checkpoint">> ELSE <<>>)
       \o (IF i % cfg.val_iters = 0 THEN <<"validation">> ELSE <<>>)
       \o <<"train", "epoch">>
       \o C27_Iterations(i + 1)

\* a whole run: the iterations, one test pass, the final checkpoint
C27_FullRun == C27_Iterations(0) \o <<"test", "checkpoint">>

C27_Epochs == Cardinality({n \in 1 .. Len(log) : log[n] = "epoch"})

\* C27 (loop ordering in run_meta_opt): in every iteration the checkpoint
\* (when due) precedes validation (when due), which precedes the training
\* step; global_epoch increases by exactly 1 per iteration; the test pass
\* runs exactly once, after the last training iteration, and is followed by
\* a final checkpoint.
C27_LoopOrdering ==
  /\ Len(log) <= Len(C27_FullRun)
  /\ log = SubSeq(C27_FullRun, 1, Len(log))
  /\ pc \in {"ckpt", "val", "train", "outer_ret", "test"} =>
       (global_epoch = C27_Epochs /\ iter = C27_Epochs)
  /\ pc = "test" => C27_Epochs = cfg.num_iters
  /\ pc = "done" =>
       /\ log = C27_FullRun
       /\ Cardinality({n \in 1 .. Len(log) : log[n] = "test"}) = 1
       /\ saved.written /\ saved.global_epoch = cfg.num_iters

\* a run of two iterations is complete: the second iteration had neither a
\* checkpoint nor a validation pass
C27_Witness ==
  /\ pc = "done"
  /\ cfg.num_iters = MaxIters
  /\ log = C27_FullRun
  /\ SubSeq(log, 1, 6) = <<"checkpoint", "validation", "train", "epoch", "train",
                           "epoch">>
  /\ step.n >= 2

\* the deterministic variant with the regularizer enabled and a family that
\* _opt_step knows
C28_Regularized ==
  ~cfg.prob_c /\ cfg.reg_hyperparam /\ cfg.reg_hyperparam_type \in {"soft", "hard", "l1"}

\* C28 (range invariant): in the deterministic variant with the regularizer
\* enabled (soft, hard or l1), after every _opt_step every entry of c lies in
\* [0, 1], including after center-keep.
C28_RangeInvariant ==
  (C28_Regularized /\ step.n >= 1 /\ pc # "error") =>
    \A i \in Idx :
      /\ RLe(RZero, c[i]) /\ RLe(c[i], ROne)
      /\ RLe(RZero, step.after[i]) /\ RLe(step.after[i], ROne)

\* a step with center-keep whose update had left [0, 1], with c back in
\* range after it
C28_Witness ==
  /\ C28_Regularized /\ cfg.measurement_selection /\ cfg.keep_center
  /\ step.n >= 1 /\ pc # "error"
  /\ \E i \in Idx : RLt(step.upd[i], RZero) /\ c[i] \in {RZero, ROne}
  /\ c = step.after
  /\ \A i \in Idx : RLe(RZero, c[i]) /\ RLe(c[i], ROne)

\* C29 (test() binarizes the mask): after test() has prepared c, every entry
\* of the c pushed to the solver is exactly 0 or 1, for every learned c the
\* run can have produced.
C29_TestBinarizes ==
  pc = "stest" =>
    /\ \A i \in Idx : c[i] \in {RZero, ROne}
    /\ \A p \in Pos : solver_c[p] \in {RZero, ROne}

\* the slices of the scans of the dataset, as pairs <<scan, slice>>
C30_Slices ==
  {p \in (0 .. (Len(dataset.num_slices) - 1)) \X (0 .. (MaxSlices - 1)) :
     p[2] < dataset.num_slices[p[1] + 1]}

RECURSIVE C30_Total(_)
C30_Total(ns) == IF ns = <<>> THEN 0 ELSE Head(ns) + C30_Total(Tail(ns))

\* C30 (dataset index mapping): __getitem__ maps every flat index idx in
\* [0, sum(num_slices)) to a pair (scan_idx, slice_idx) with
\* 0 <= slice_idx < num_slices[scan_idx]; the mapping is one-to-one and covers
\* every slice of every scan, and __len__ equals sum(num_slices).
C30_IndexMapping ==
  LET total == C30_Total(dataset.num_slices)
      at(idx) == <<GetItem(dataset, idx).scan_idx, GetItem(dataset, idx).slice_idx>>
  IN  /\ item.fn = "__len__" => item.len = total
      /\ item.fn = "__getitem__" =>
           /\ item.idx \in 0 .. (total - 1)
           /\ <<item.scan_idx, item.slice_idx>> \in C30_Slices
           /\ <<item.scan_idx, item.slice_idx>> = at(item.idx)
      /\ \A a, b \in 0 .. (total - 1) : at(a) = at(b) => a = b
      /\ {at(a) : a \in 0 .. (total - 1)} = C30_Slices

\* the first slice of the last of three scans is fetched, past a scan that
\* has no slices
C30_Witness ==
  /\ item.fn = "__getitem__"
  /\ Len(dataset.num_slices) = 3
  /\ dataset.num_slices[2] = 0 /\ dataset.num_slices[1] = 2
  /\ item.scan_idx = 2 /\ item.slice_idx = 0 /\ item.idx = 2

====
